---- MODULE Spec2Model ----
(***************************************************************************)
(* A model of layer-webhooks-services: the express listener of             *)
(* src/src/index.js (signature validation, routing, job creation) and the  *)
(* receipts engine of src/src/receipts.js (event processor, delayed check, *)
(* recipient evaluation, notification job).                                *)
(*                                                                         *)
(* Strings the code concatenates or searches (hook names, job types, redis *)
(* keys) are sequences of one-character strings.  A value that may be      *)
(* undefined is None (<<>>) or Some(v) (<<v>>).                            *)
(***************************************************************************)
EXTENDS Bags, FiniteSets, Integers, Sequences, TLC

VARIABLES hooks, store, queue, inflight, lookups, posts, redeliveries, failures,
          sentCount, lastEv, deletedAfterSent, last,
          console, saves, webhooks, registers, apiCalls, appOptions, routes

vars == <<hooks, store, queue, inflight, lookups, posts, redeliveries, failures,
          sentCount, lastEv, deletedAfterSent, last,
          console, saves, webhooks, registers, apiCalls, appOptions, routes>>

\* The state of the listener and of the receipts engine, and the state of
\* the platform's registrations and of the calls of register(), with the
\* options object the application holds and the routes of its express app.
engineVars == <<hooks, store, queue, inflight, lookups, posts, redeliveries, failures,
                sentCount, lastEv, deletedAfterSent, saves>>
regVars == <<webhooks, registers, apiCalls, appOptions, routes>>

\* hooks:        options.hooks of receipts(), the derived hook objects
\* store:        the redis store, key -> value
\* queue:        the kue queue, a bag of jobs of every type
\* inflight:     delayed checks whose redis.get was served and whose
\*               callback has not run yet
\* lookups:      evaluations waiting for their identity lookups
\* posts, redeliveries, failures: what the run has used of its bounds
\* sentCount, lastEv, deletedAfterSent: per (hook, message), the
\*               message.sent events processed, the last message event
\*               processed, and whether a message.deleted was processed
\*               after a message.sent
\* last:         what the last step did and answered
\* console:      the lines console.error wrote
\* saves:        per (hook, message), the calls of save() for a notification job
\* webhooks:     the registrations the platform holds, in the order it lists them
\* registers:    the calls of register(), each with what it has done so far
\* apiCalls:     requests of the webhooks client the platform has not served yet
\* appOptions:   the options object the application passes to register() and
\*               to listen(), as the calls have left it
\* routes:       the paths listen() has given to app.get and app.post

\* ------------------------------------------------------------------ bounds

\* POST requests the platform (or anyone else) sends in one run.
MaxPosts == 3
\* Times the at-least-once runner hands a delayed check out again.
MaxRedeliveries == 1
\* Worker processes running the delayed-check processor (one check each).
MaxWorkers == 2
\* Identity lookups that call back with an error.
MaxLookupFailures == 1
\* POST requests in one run of the system under fairness.
MaxFairPosts == 2
\* Calls of register() in one run.
MaxRegisters == 2

\* --------------------------------------------------------- values, strings

None == <<>>
Some(v) == <<v>>
Val(o) == o[1]

\* The undefined value where the code tells it from null (None).
Undefined == <<"undefined", "undefined">>

\* x.indexOf(p) === 0 for strings: p is a prefix of x.
StartsWith(x, p) == Len(p) <= Len(x) /\ SubSeq(x, 1, Len(p)) = p

REDIS_PREFIX == <<"l","a","y","e","r","-","w","e","b","h","o","o","k","s","-">>
ReceiptsSuffix == <<":","r","e","c","e","i","p","t","s">>
DelayedJobSuffix == <<" ","d","e","l","a","y","e","d","-","j","o","b">>

\* JSON.stringify / JSON.parse of a value that came from JSON.
Stringify(v) == <<"json", v>>
Parse(s) == s[2]

\* unescape(encodeURIComponent(payload)): the UTF-8 bytes of the payload.
Utf8(payload) == <<"utf8", payload>>

\* crypto.createHmac('sha1', key).update(data).digest('hex'), symbolically:
\* two digests are equal exactly when key and data are.
Hmac(key, data) == <<"hmac", key, data>>

\* ------------------------------------------------------------ the inputs

\* The name the application gives its hook, and the secret it shares with
\* the platform.
HookName == <<"h">>
Secret == "my secret"

Statuses == {"sent", "delivered", "read"}

\* recipient_status objects of the message bodies the platform sends: the
\* keys in their stored order, each with its status.
RS1 == << <<"A", "sent">>, <<"B", "delivered">>, <<"C", "read">> >>
RS2 == << <<"A", "read">>, <<"B", "read">>, <<"C", "read">> >>
Bodies == {RS1, RS2}

MessageIds == {<<"m", "1">>}

\* message.sender of a user's message, of a Platform API (bot) message, and
\* of a message that carries both fields.
UserSender == [user_id |-> Some("S"), name |-> None]
BotSender == [user_id |-> None, name |-> Some("bot-service")]
BothSender == [user_id |-> Some("S"), name |-> Some("bot-service")]

Message(id, sender, rs) == [id |-> id, sender |-> sender, recipient_status |-> rs]

MessageEvents == {"message.sent", "message.delivered", "message.read", "message.deleted"}

\* The platform stamps an event with its time of creation.
CreatedAt(type) == <<"at", type>>

Body(cfg, type, message, conversation) ==
  [event |-> [type |-> type, created_at |-> CreatedAt(type)],
   config |-> [name |-> cfg],
   message |-> message,
   conversation |-> conversation]

\* config.name values of the events that arrive: the registered name, the
\* listener's own name, a name the listener's name is a prefix of, a name
\* that only shares a prefix, and a different hook's name.
ConfigNames ==
  { HookName,
    HookName \o ReceiptsSuffix,
    HookName \o ReceiptsSuffix \o <<":", "x">>,
    HookName \o <<":">>,
    HookName \o <<"r">>,
    <<"g">> }

\* Request bodies: every message event of a user for every body, a
\* conversation event, and a message.sent for every config name and sender.
RequestBodies ==
  { Body(HookName, t, Some(Message(id, UserSender, rs)), None) :
      t \in MessageEvents, id \in MessageIds, rs \in Bodies }
  \cup { Body(HookName, "conversation.created", None, Some([id |-> "c1"])) }
  \cup { Body(c, "message.sent", Some(Message(id, s, RS1)), None) :
      c \in ConfigNames, id \in MessageIds, s \in {UserSender, BotSender, BothSender} }

\* The layer-webhook-signature header the platform computes for a body.
Signed(body) == Some(Hmac(Secret, Utf8(Stringify(body))))

\* Headers that are not the platform's signature of the body: a signature
\* made with another secret, the signature of another body, no header.
BadSignatures(body) ==
  { Some(Hmac("not the secret", Utf8(Stringify(body)))),
    Some(Hmac(Secret, Utf8(Stringify([body EXCEPT !.event.type = "message.forged"])))),
    None }

\* The bodies that also arrive with a bad signature: an event of this hook,
\* an event of another hook, and a bot's message.
UnsignedBodies ==
  { Body(c, "message.sent", Some(Message(id, s, RS1)), None) :
      c \in {HookName, <<"g">>}, id \in MessageIds, s \in {UserSender, BotSender} }

Requests ==
  { [body |-> b, signature |-> Signed(b)] : b \in RequestBodies }
  \cup UNION { { [body |-> b, signature |-> s] : s \in BadSignatures(b) } : b \in UnsignedBodies }

\* ------------------------------------------------- the hook definitions

\* A JavaScript value that is a string (a sequence of tokens) or a number.
Str(s) == [str |-> s]
Num(n) == [num |-> n]
IsStr(v) == DOMAIN v = {"str"}

\* '10 minutes', the delay of the documented examples.
TenMinutes == <<"10", " ", "minutes">>

\* A hook definition as the application passes it to receipts().
Definition(name, reportForStatus, identities) ==
  [name |-> name,
   path |-> <<"/", "r">>,
   events |-> MessageEvents,
   delay |-> Some(Str(TenMinutes)),
   receipts |-> [reportForStatus |-> reportForStatus, identities |-> identities]]

\* receipts.identities: absent or false ("off"), true, or a function.
Definitions ==
  { Definition(HookName, Some(<<"sent", "delivered">>), "off"),
    Definition(HookName, Some(<<"delivered">>), "off"),
    Definition(HookName, Some(<<"delivered">>), "true") }

\* A hook definition as the README and the comment of receipts.js document
\* it: the delay under receipts.delay, the watched statuses under
\* receipts.recipient_status_filter (README) or receipts.reportForStatus
\* (receipts.js); no top-level delay and no receipts.identities.
Documented(name, delay, filterField, statuses) ==
  [name |-> name,
   path |-> <<"/", "r">>,
   events |-> MessageEvents,
   delay |-> None,
   receipts |-> [delay |-> Some(delay),
                 recipient_status_filter |->
                   IF filterField = "recipient_status_filter" THEN Some(statuses) ELSE None,
                 reportForStatus |->
                   IF filterField = "reportForStatus" THEN Some(statuses) ELSE None,
                 identities |-> "off"]]

ReadmeDefinitions ==
  { Documented(HookName, Str(TenMinutes), "recipient_status_filter", <<"sent", "delivered">>),
    Documented(HookName, Num(600000), "recipient_status_filter", <<"sent", "delivered">>) }

DocumentedDefinitions ==
  ReadmeDefinitions
  \cup { Documented(HookName, Str(TenMinutes), "reportForStatus", <<"sent">>) }

\* The decimal digits of a number, for the numbers the model formats.
Digits(n) == CASE n = 1 -> "1" [] n = 10 -> "10" [] n = 600 -> "600" [] OTHER -> "digits"

\* ms(val) of the ms package: a string is parsed to a number of
\* milliseconds (undefined when it is no duration), any other value is
\* formatted as a short duration, the undefined value as 'undefinedms'.
ms(val) ==
  IF val = None THEN Some(Str(<<"undefined", "ms">>))
  ELSE IF IsStr(Val(val))
  THEN CASE Val(val).str = TenMinutes -> Some(Num(600000))
         [] Val(val).str = <<"10", "m">> -> Some(Num(600000))
         [] Val(val).str = <<"1", "s">> -> Some(Num(1000))
         [] OTHER -> None
  ELSE LET n == Val(val).num
       IN  IF n >= 86400000 THEN Some(Str(<<Digits(n \div 86400000), "d">>))
           ELSE IF n >= 3600000 THEN Some(Str(<<Digits(n \div 3600000), "h">>))
           ELSE IF n >= 60000 THEN Some(Str(<<Digits(n \div 60000), "m">>))
           ELSE IF n >= 1000 THEN Some(Str(<<Digits(n \div 1000), "s">>))
           ELSE Some(Str(<<Digits(n), "ms">>))

\* The derivation with another separator before the suffix.
DeriveHookDashed(hook) ==
  [name |-> hook.name \o <<"-","r","e","c","e","i","p","t","s">>,
   originalName |-> hook.name,
   path |-> hook.path,
   events |-> hook.events,
   receipts |-> [delay |-> ms(hook.delay),
                 reportForStatus |-> hook.receipts.reportForStatus,
                 identities |-> hook.receipts.identities]]

\* The hook receipts() derives from a definition and hands to listen().
DeriveHook(hook) ==
  [name |-> hook.name \o ReceiptsSuffix,
   originalName |-> hook.name,
   path |-> hook.path,
   events |-> hook.events,
   receipts |-> [delay |-> ms(hook.delay),
                 reportForStatus |-> hook.receipts.reportForStatus,
                 identities |-> hook.receipts.identities]]

\* -------------------------------------------------------------- register()

\* A url is a sequence of tokens: ":443" is one token, "/" another.
\* options.url.replace(/\:443$/, ''), then a '/' added unless it ends in one.
normaliseUrl(url) ==
  LET u == IF Len(url) > 0 /\ url[Len(url)] = ":443" THEN SubSeq(url, 1, Len(url) - 1) ELSE url
  IN  IF Len(u) > 0 /\ u[Len(u)] = "/" THEN u ELSE u \o <<"/">>

\* hook.path.replace(/^\//, '').
stripPath(path) == IF Len(path) > 0 /\ path[1] = "/" THEN Tail(path) ELSE path

\* The request registerWebhook sends for a hook definition: the platform
\* stamps the events of the registration with its config.
registerWebhook(url, secret, hookDef) ==
  [url |-> url \o hookDef.path,
   events |-> hookDef.events,
   secret |-> secret,
   config |-> [name |-> hookDef.name]]

\* A request of the webhooks client: enable(id) or register(body).
ClientCall(op, id, body) == [op |-> op, id |-> id, body |-> body]

\* getWebhook matching on the name alone.
getWebhookByName(currentHooks, url, hookDef) ==
  LET Matches(webhook) == webhook.config.name = hookDef.name
      found == SelectSeq(currentHooks, Matches)
  IN  IF found = <<>> THEN None ELSE Some(found[1])

\* getWebhook(hookDef): the first listed registration with the hook's name
\* and target url, or undefined.
getWebhook(currentHooks, url, hookDef) ==
  LET Matches(webhook) == /\ webhook.config.name = hookDef.name
                          /\ webhook.target_url = url \o hookDef.path
      found == SelectSeq(currentHooks, Matches)
  IN  IF found = <<>> THEN None ELSE Some(found[1])

\* verifyWebhook(hookDef, webhook): the requests it sends.
verifyWebhook(hookDef, webhook) ==
  IF webhook.status # "active"
  THEN << ClientCall("enable", Some(webhook.id), None) >>
  ELSE <<>>

\* registerHook(hookDef): the requests it sends.
registerHook(currentHooks, url, secret, hookDef) ==
  LET webhook == getWebhook(currentHooks, url, hookDef)
  IN  IF webhook # None
      THEN verifyWebhook(hookDef, Val(webhook))
      ELSE << ClientCall("register", None, Some(registerWebhook(url, secret, hookDef))) >>

\* The callback of webhooksClient.list in a call of register(): the
\* currentHooks it leaves, the requests sent for each hook, the lines logged.
listCallback(call, err, body) ==
  IF err
  THEN [currentHooks |-> None, sent |-> <<>>,
        logged |-> << [hook |-> <<>>, text |-> "Failed to list webhooks: "] >>]
  ELSE [currentHooks |-> Some(body),
        sent |-> [i \in 1..Len(call.hooks) |->
                    registerHook(body, call.url, call.secret, call.hooks[i])],
        logged |-> <<>>]

\* The hook definitions and urls the application registers, and the
\* registrations the platform may hold beforehand.
RegisterHook(name, path) == [name |-> name, path |-> path, events |-> MessageEvents]
HookLists ==
  { << RegisterHook(HookName, <<"/", "r">>) >>,
    << RegisterHook(HookName, <<"/", "r">>), RegisterHook(<<"g">>, <<"g">>) >> }
Urls == { <<"u">>, <<"u", "/">>, <<"u", ":443">> }
RegisterOptions == { [url |-> u, secret |-> Secret, hooks |-> hs] : u \in Urls, hs \in HookLists }

Registration(id, name, url, status) ==
  [id |-> id, config |-> [name |-> name], target_url |-> url, status |-> status]
\* The application before it has made an options object.
NoOptions == [url |-> <<>>, secret |-> Secret, hooks |-> <<>>]

InitialWebhooks ==
  { <<>>,
    << Registration(1, HookName, <<"u", "/", "r">>, "active") >>,
    << Registration(1, HookName, <<"u", "/", "r">>, "inactive") >>,
    << Registration(1, HookName, <<"v", "/", "r">>, "active") >>,
    << Registration(1, <<"g">>, <<"u", "/", "r">>, "active"),
       Registration(2, HookName, <<"u", "/", "r">>, "unverified") >> }

\* ------------------------------------------------------------- the queue

\* queue.createJob(type, data) with its delay, attempts and backoff.
Job(type, data, delay, backoffDelay) ==
  [type |-> type, data |-> data, delay |-> delay, attempts |-> 10,
   backoff |-> [type |-> "exponential", delay |-> backoffDelay]]

\* --------------------------------------------------- listen(): app.post

\* handleValidation without the comparison: every request passes.
handleValidationAlwaysNext(secret, req) == [next |-> TRUE, sent |-> <<>>]

\* handleValidation: next() when the computed HMAC equals the header, else
\* a 403.  The result is the statuses sent and whether next() was called.
handleValidation(secret, req) ==
  LET payload == Stringify(req.body)
      utf8safe == Utf8(payload)
      hash == Hmac(secret, utf8safe)
      signature == req.signature
  IN  IF Some(hash) = signature
      THEN [next |-> TRUE, sent |-> <<>>]
      ELSE [next |-> FALSE, sent |-> <<403>>]

\* The test with the two names the other way round: the event's name may
\* extend the listener's.
IsForeignReversed(webhookName, configName) ==
  configName # webhookName /\ ~StartsWith(configName, webhookName \o <<":">>)

\* The test of a foreign event in the post handler.
IsForeign(webhookName, configName) ==
  configName # webhookName /\ ~StartsWith(webhookName, configName \o <<":">>)

\* The post handler without the test of the sender: it creates a job for
\* every event that is not foreign.
postHandlerNoSenderTest(webhookName, req) ==
  IF IsForeign(webhookName, req.body.config.name)
  THEN [sent |-> <<400>>, jobs |-> <<>>]
  ELSE [sent |-> <<200>>,
        jobs |-> << Job(webhookName,
                        [title |-> webhookName,
                         timestamp |-> req.body.event.created_at,
                         type |-> req.body.event.type,
                         conversation |-> req.body.conversation,
                         message |-> req.body.message],
                        0, 10000) >>]

\* The post handler creating the job before it tests for a foreign event.
postHandlerJobFirst(webhookName, req) ==
  LET jobs == IF req.body.message = None \/ Val(req.body.message).sender.user_id # None
              THEN << Job(webhookName,
                          [title |-> webhookName,
                           timestamp |-> req.body.event.created_at,
                           type |-> req.body.event.type,
                           conversation |-> req.body.conversation,
                           message |-> req.body.message],
                          0, 10000) >>
              ELSE <<>>
  IN  IF IsForeign(webhookName, req.body.config.name)
      THEN [sent |-> <<400>>, jobs |-> jobs]
      ELSE [sent |-> <<200>>, jobs |-> jobs]

\* The post handler proper: the statuses it sends and the jobs it creates.
postHandler(webhookName, req) ==
  IF IsForeign(webhookName, req.body.config.name)
  THEN [sent |-> <<400>>, jobs |-> <<>>]
  ELSE IF req.body.message = None \/ Val(req.body.message).sender.user_id # None
  THEN [sent |-> <<200>>,
        jobs |-> << Job(webhookName,
                        [title |-> webhookName,
                         timestamp |-> req.body.event.created_at,
                         type |-> req.body.event.type,
                         conversation |-> req.body.conversation,
                         message |-> req.body.message],
                        0, 10000) >>]
  ELSE [sent |-> <<200>>, jobs |-> <<>>]

\* app.post(path, jsonParser, handleValidation, handler).
appPost(secret, webhookName, req) ==
  LET v == handleValidation(secret, req)
  IN  IF v.next
      THEN postHandler(webhookName, req)
      ELSE [sent |-> v.sent, jobs |-> <<>>]

\* ------------------------------------------------------ listen(): paths

\* The path given to express with a '/' put before every path.
listenPathPrepend(path) == <<"/">> \o path

\* var path = hookDef.path; if (path.indexOf('/') !== 0) path = '/' + path.
listenPath(path) == IF Len(path) > 0 /\ path[1] = "/" THEN path ELSE <<"/">> \o path

\* The routes listen(options) sets up, one path for app.get and app.post
\* of each hook.
listen(hookDefs) ==
  { [name |-> hookDefs[i].name, path |-> listenPath(hookDefs[i].path)] : i \in 1..Len(hookDefs) }

\* ---------------------------------------------------- listen(): app.get

\* express's res.send(body): status 200; a string is the body as it is, an
\* array or an object its JSON text.
resSend(body) ==
  [status |-> 200, body |-> IF IsStr(body) THEN body ELSE Str(Stringify(body))]

\* express's res.sendStatus(code): the status, and its text as the body.
StatusText(code) ==
  CASE code = 200 -> <<"O", "K">>
    [] code = 400 -> <<"Bad Request">>
    [] code = 403 -> <<"Forbidden">>
    [] OTHER -> <<"status">>
resSendStatus(code) == [status |-> code, body |-> Str(StatusText(code))]

\* In JavaScript the empty string is false, every other string, array or
\* object true.
Truthy(v) == v # None /\ Val(v) # Str(<<>>)

\* The get handler answering every request with sendStatus(200).
getHandlerNoEcho(req) == << resSendStatus(200) >>

\* app.get(path, ...): the responses it sends.
getHandler(req) ==
  IF Truthy(req.query.verification_challenge)
  THEN << resSend(Val(req.query.verification_challenge)) >>
  ELSE << resSendStatus(200) >>

\* req.query.verification_challenge as express parses the query string: no
\* parameter, '?verification_challenge=', a challenge, and the parameter
\* given twice (an array).
Challenges ==
  { None, Some(Str(<<>>)), Some(Str(<<"c", "1">>)), Some(Str(<<"c", "2">>)),
    Some([arr |-> << Str(<<"c", "1">>), Str(<<"c", "2">>) >>]) }
GetRequests == { [query |-> [verification_challenge |-> c]] : c \in Challenges }

\* ------------------------------------------------------------- the store

\* The key of the first version of the engine, without the hook's name.
KeyOfMessage(hookName, messageId) == REDIS_PREFIX \o messageId

\* The redis key of a hook's snapshot of a message.
Key(hookName, messageId) == REDIS_PREFIX \o hookName \o <<"-">> \o messageId

redisSet(st, k, v) == [x \in DOMAIN st \cup {k} |-> IF x = k THEN v ELSE st[x]]
redisDel(st, k) == [x \in DOMAIN st \ {k} |-> st[x]]
redisGet(st, k) == IF k \in DOMAIN st THEN Some(st[k]) ELSE None

\* ------------------------------------------- receipts(): event processor

\* The delayed check message.sent arms.
DelayedJob(hook, message) ==
  Job(hook.name \o DelayedJobSuffix,
      [title |-> "Process undelivered message", messageId |-> message.id],
      hook.receipts.delay, 1000)

\* The event processor arming a check on every event that stores a snapshot.
processEventArmOnUpdate(hook, job, st) ==
  LET event == job.data
      message == event.message
  IN  IF message = None
      THEN [store |-> st, jobs |-> <<>>, done |-> 1, threw |-> TRUE]
      ELSE IF Val(message).sender.name # None
      THEN [store |-> st, jobs |-> <<>>, done |-> 2, threw |-> FALSE]
      ELSE LET m == Val(message)
               k == Key(hook.name, m.id)
           IN  CASE event.type \in {"message.sent", "message.delivered", "message.read"} ->
                      [store |-> redisSet(st, k, Stringify(m)),
                       jobs |-> << DelayedJob(hook, m) >>,
                       done |-> 1, threw |-> FALSE]
                 [] event.type = "message.deleted" ->
                      [store |-> redisDel(st, k),
                       jobs |-> <<>>, done |-> 1, threw |-> FALSE]
                 [] OTHER ->
                      [store |-> st, jobs |-> <<>>, done |-> 1, threw |-> FALSE]

\* The event processor with message.deleted falling through to no case.
processEventNoDelete(hook, job, st) ==
  LET event == job.data
      message == event.message
  IN  IF message = None
      THEN [store |-> st, jobs |-> <<>>, done |-> 1, threw |-> TRUE]
      ELSE IF Val(message).sender.name # None
      THEN [store |-> st, jobs |-> <<>>, done |-> 2, threw |-> FALSE]
      ELSE LET m == Val(message)
               k == Key(hook.name, m.id)
           IN  CASE event.type = "message.sent" ->
                      [store |-> redisSet(st, k, Stringify(m)),
                       jobs |-> << DelayedJob(hook, m) >>,
                       done |-> 1, threw |-> FALSE]
                 [] event.type \in {"message.delivered", "message.read"} ->
                      [store |-> redisSet(st, k, Stringify(m)),
                       jobs |-> <<>>, done |-> 1, threw |-> FALSE]
                 [] OTHER ->
                      [store |-> st, jobs |-> <<>>, done |-> 1, threw |-> FALSE]

\* queue.process(hook.name, 50, ...): the store after the job, the jobs it
\* creates, the times it calls done() and whether it throws.
processEvent(hook, job, st) ==
  LET event == job.data
      message == event.message
  IN  IF message = None
      THEN \* message.sender of undefined: a TypeError, done() in the finally
           [store |-> st, jobs |-> <<>>, done |-> 1, threw |-> TRUE]
      ELSE IF Val(message).sender.name # None
      THEN \* return done() and the finally's done()
           [store |-> st, jobs |-> <<>>, done |-> 2, threw |-> FALSE]
      ELSE LET m == Val(message)
               k == Key(hook.name, m.id)
           IN  CASE event.type = "message.sent" ->
                      [store |-> redisSet(st, k, Stringify(m)),
                       jobs |-> << DelayedJob(hook, m) >>,
                       done |-> 1, threw |-> FALSE]
                 [] event.type \in {"message.delivered", "message.read"} ->
                      [store |-> redisSet(st, k, Stringify(m)),
                       jobs |-> <<>>, done |-> 1, threw |-> FALSE]
                 [] event.type = "message.deleted" ->
                      [store |-> redisDel(st, k),
                       jobs |-> <<>>, done |-> 1, threw |-> FALSE]
                 [] OTHER ->
                      [store |-> st, jobs |-> <<>>, done |-> 1, threw |-> FALSE]

\* --------------------------------------------- receipts(): delayed check

\* The filter read as a threshold: every recipient whose status has not
\* passed the furthest status listed.
StatusRank(status) == CASE status = "sent" -> 1 [] status = "delivered" -> 2 [] OTHER -> 3
RecipientsUpTo(reportForStatus, message) ==
  LET UpTo(pair) == \E i \in 1..Len(reportForStatus) :
                      StatusRank(pair[2]) <= StatusRank(reportForStatus[i])
      kept == SelectSeq(message.recipient_status, UpTo)
  IN  [i \in 1..Len(kept) |-> kept[i][1]]

\* Object.keys(message.recipient_status).filter(...): the user ids whose
\* status is in reportForStatus, in the order of the keys.
Recipients(reportForStatus, message) ==
  LET InFilter(pair) == \E i \in 1..Len(reportForStatus) : reportForStatus[i] = pair[2]
      kept == SelectSeq(message.recipient_status, InFilter)
  IN  [i \in 1..Len(kept) |-> kept[i][1]]

\* createJob publishing under the name the hook listens as.
createJobDerivedName(hook, message, recipients, identities) ==
  Job(hook.name,
      [message |-> message, recipients |-> recipients, identities |-> identities],
      0, 1000)

\* createJob(message, recipients, identities).
createJob(hook, message, recipients, identities) ==
  Job(hook.originalName,
      [message |-> message, recipients |-> recipients, identities |-> identities],
      0, 1000)

\* getUserFromIdentities(userId, callback): what the callback receives,
\* the identity record or null.
IdentityRecord(userId) == [user_id |-> userId]
getUserFromIdentities(userId, err) == IF err THEN None ELSE Some(IdentityRecord(userId))

\* A resolver the application supplies as receipts.identities: it calls
\* back with the record, or, failing, with an error and null, or with the
\* error alone.
customResolver(userId, outcome) ==
  CASE outcome = "record" -> Some(IdentityRecord(userId))
    [] outcome = "error, null" -> None
    [] OTHER -> Undefined

\* What getUser passes to its callback as data.
getUser(hook, userId, err) ==
  IF hook.receipts.identities = "function"
  THEN {customResolver(userId, o) : o \in IF err THEN {"error, null", "error"} ELSE {"record"}}
  ELSE {getUserFromIdentities(userId, err)}

\* The fan-out of processMessage: the ids to resolve (the sender, then the
\* recipients), the identityHash and count the callbacks share, and the
\* calls of getUser that have not called back yet.
Lookup(hook, message, recipients) ==
  LET identities == <<Val(message.sender.user_id)>> \o recipients
  IN  [hook |-> hook.name, message |-> message, recipients |-> recipients,
       identities |-> identities, identityHash |-> <<>>, count |-> 0,
       pending |-> 1..Len(identities)]

\* hook.receipts.identities after processMessage replaced a value that is
\* no function by getUserFromIdentities.
ResolverOf(hook) ==
  IF hook.receipts.identities \in {"function", "getUserFromIdentities"}
  THEN hook
  ELSE [hook EXCEPT !.receipts.identities = "getUserFromIdentities"]

\* processMessage without the test of recipients.length.
processMessageNoLengthTest(hook, message) ==
  IF hook.receipts.reportForStatus = None
  THEN [threw |-> Len(message.recipient_status) > 0, recipients |-> <<>>, jobs |-> <<>>,
        lookups |-> <<>>, hook |-> hook]
  ELSE LET recipients == Recipients(Val(hook.receipts.reportForStatus), message)
       IN  IF hook.receipts.identities = "off"
           THEN [threw |-> FALSE, recipients |-> recipients,
                 jobs |-> << createJob(hook, message, recipients, <<>>) >>,
                 lookups |-> <<>>, hook |-> hook]
           ELSE [threw |-> FALSE, recipients |-> recipients, jobs |-> <<>>,
                 lookups |-> << Lookup(hook, message, recipients) >>,
                 hook |-> ResolverOf(hook)]

\* processMessage(message): whether it throws (indexOf of an undefined
\* reportForStatus), the recipients, the jobs it creates at once, the
\* lookups it starts and the hook as it leaves it.
processMessage(hook, message) ==
  IF hook.receipts.reportForStatus = None
  THEN IF Len(message.recipient_status) > 0
       THEN [threw |-> TRUE, recipients |-> <<>>, jobs |-> <<>>, lookups |-> <<>>, hook |-> hook]
       ELSE [threw |-> FALSE, recipients |-> <<>>, jobs |-> <<>>, lookups |-> <<>>, hook |-> hook]
  ELSE LET recipients == Recipients(Val(hook.receipts.reportForStatus), message)
       IN  IF Len(recipients) > 0
           THEN IF hook.receipts.identities = "off"
                THEN [threw |-> FALSE, recipients |-> recipients,
                      jobs |-> << createJob(hook, message, recipients, <<>>) >>,
                      lookups |-> <<>>, hook |-> hook]
                ELSE [threw |-> FALSE, recipients |-> recipients, jobs |-> <<>>,
                      lookups |-> << Lookup(hook, message, recipients) >>,
                      hook |-> ResolverOf(hook)]
           ELSE [threw |-> FALSE, recipients |-> recipients, jobs |-> <<>>,
                 lookups |-> <<>>, hook |-> hook]

\* The callback comparing count with the number of recipients, not of ids:
\* with the sender counted, the counts never meet at the last callback.
identityCallbackMiscounted(hook, e, i, data) ==
  LET userId == e.identities[i]
      hash == [u \in DOMAIN e.identityHash \cup {userId} |->
                 IF u = userId THEN data ELSE e.identityHash[u]]
      count == e.count + 1
      after == [e EXCEPT !.identityHash = hash, !.count = count, !.pending = @ \ {i}]
  IN  IF count = Len(e.identities) + 1
      THEN [lookup |-> after, jobs |-> << createJob(hook, e.message, e.recipients, hash) >>]
      ELSE [lookup |-> after, jobs |-> <<>>]

\* The callback creating the job when the first lookup reports.
identityCallbackFirstReply(hook, e, i, data) ==
  LET userId == e.identities[i]
      hash == [u \in DOMAIN e.identityHash \cup {userId} |->
                 IF u = userId THEN data ELSE e.identityHash[u]]
      count == e.count + 1
      after == [e EXCEPT !.identityHash = hash, !.count = count, !.pending = @ \ {i}]
  IN  IF count = 1
      THEN [lookup |-> after, jobs |-> << createJob(hook, e.message, e.recipients, hash) >>]
      ELSE [lookup |-> after, jobs |-> <<>>]

\* The callback getUser is given, for the id at position i: the lookup
\* after it and the jobs it creates.
identityCallback(hook, e, i, data) ==
  LET userId == e.identities[i]
      hash == [u \in DOMAIN e.identityHash \cup {userId} |->
                 IF u = userId THEN data ELSE e.identityHash[u]]
      count == e.count + 1
      after == [e EXCEPT !.identityHash = hash, !.count = count, !.pending = @ \ {i}]
  IN  IF count = Len(e.identities)
      THEN [lookup |-> after, jobs |-> << createJob(hook, e.message, e.recipients, hash) >>]
      ELSE [lookup |-> after, jobs |-> <<>>]

\* The callback of redis.get in the delayed check: the store after it, the
\* jobs created, the lookups started, the calls of done(), whether done()
\* was given an error (the job has failed) and whether the callback throws.
checkCallback(hook, messageId, err, reply, st) ==
  IF reply # None
  THEN LET r == processMessage(hook, Parse(Val(reply)))
       IN  IF r.threw
           THEN [store |-> st, jobs |-> r.jobs, recipients |-> r.recipients,
                 lookups |-> r.lookups, hook |-> r.hook, done |-> 1, failed |-> FALSE,
                 threw |-> TRUE]
           ELSE [store |-> redisDel(st, Key(hook.name, messageId)), jobs |-> r.jobs,
                 recipients |-> r.recipients, lookups |-> r.lookups, hook |-> r.hook,
                 done |-> 1, failed |-> FALSE, threw |-> FALSE]
  ELSE [store |-> st, jobs |-> <<>>, recipients |-> <<>>, lookups |-> <<>>,
        hook |-> hook, done |-> 1, failed |-> FALSE, threw |-> FALSE]

\* job.save(callback) of a notification job: the job is in the queue, or
\* save fails and the callback logs the error.
save(hook, jobs, err) ==
  IF err
  THEN [queued |-> <<>>,
        logged |-> [n \in 1..Len(jobs) |->
                      [hook |-> hook.name, text |-> "Unable to create Kue process: "]]]
  ELSE [queued |-> jobs, logged |-> <<>>]

\* ------------------------------------------------------------ the system

SeqToBag(s) == [x \in {s[i] : i \in 1..Len(s)} |-> Cardinality({i \in 1..Len(s) : s[i] = x})]

\* The (hook name, message id) pairs of the run.
Keys == {<<DeriveHook(d).name, id>> : d \in Definitions, id \in MessageIds}

Init ==
  /\ hooks \in {{DeriveHook(d)} : d \in Definitions}
  /\ store = <<>>
  /\ queue = EmptyBag
  /\ inflight = EmptyBag
  /\ lookups = EmptyBag
  /\ posts = 0
  /\ redeliveries = 0
  /\ failures = 0
  /\ sentCount = [k \in Keys |-> 0]
  /\ lastEv = [k \in Keys |-> "none"]
  /\ deletedAfterSent = [k \in Keys |-> FALSE]
  /\ last = [op |-> "init"]
  /\ console = <<>>
  /\ saves = [k \in Keys |-> 0]
  /\ webhooks = <<>>
  /\ registers = <<>>
  /\ apiCalls = EmptyBag
  /\ appOptions = NoOptions
  /\ routes = {}

\* A POST to the hook's path.
Post(h, req, max) ==
  /\ posts < max
  /\ posts' = posts + 1
  /\ LET r == appPost(Secret, h.name, req)
     IN  /\ queue' = queue (+) SeqToBag(r.jobs)
         /\ last' = [op |-> "post", hook |-> h.name, req |-> req,
                     sent |-> r.sent, jobs |-> r.jobs]
  /\ UNCHANGED <<hooks, store, inflight, lookups, redeliveries, failures, sentCount, lastEv,
               deletedAfterSent, console, saves, regVars>>

\* A GET to the hook's path.
Get(h, req) ==
  /\ last' = [op |-> "get", hook |-> h.name, req |-> req, sent |-> getHandler(req)]
  /\ UNCHANGED <<engineVars, console, regVars>>

\* A worker takes an event job of the hook and runs the event processor.
ProcessEvent(h, job) ==
  /\ BagIn(job, queue)
  /\ job.type = h.name
  /\ LET r == processEvent(h, job, store)
         isMsg == job.data.message # None /\ Val(job.data.message).sender.name = None
         k == <<h.name, Val(job.data.message).id>>
     IN  /\ store' = r.store
         /\ queue' = (queue (-) SetToBag({job})) (+) SeqToBag(r.jobs)
         /\ sentCount' = IF isMsg /\ job.data.type = "message.sent"
                         THEN [sentCount EXCEPT ![k] = @ + 1] ELSE sentCount
         /\ lastEv' = IF isMsg /\ job.data.type \in MessageEvents
                      THEN [lastEv EXCEPT ![k] = job.data.type] ELSE lastEv
         /\ deletedAfterSent' =
              IF isMsg /\ job.data.type = "message.deleted" /\ sentCount[k] > 0
              THEN [deletedAfterSent EXCEPT ![k] = TRUE] ELSE deletedAfterSent
         /\ last' = [op |-> "event", hook |-> h.name, job |-> job, jobs |-> r.jobs,
                     done |-> r.done, threw |-> r.threw]
  /\ UNCHANGED <<hooks, inflight, lookups, posts, redeliveries, failures, console, saves, regVars>>

\* The runner hands a delayed check to a worker, whose redis.get is served;
\* `again`: the runner will hand the same check out once more.
CheckFire(h, job, again) ==
  /\ BagIn(job, queue)
  /\ job.type = h.name \o DelayedJobSuffix
  /\ BagCardinality(inflight) < MaxWorkers
  /\ again => redeliveries < MaxRedeliveries
  /\ redeliveries' = IF again THEN redeliveries + 1 ELSE redeliveries
  /\ queue' = IF again THEN queue ELSE queue (-) SetToBag({job})
  /\ LET c == [hook |-> h.name, messageId |-> job.data.messageId, job |-> job, err |-> FALSE,
               reply |-> redisGet(store, Key(h.name, job.data.messageId)),
               seen |-> lastEv[<<h.name, job.data.messageId>>]]
     IN  /\ inflight' = inflight (+) SetToBag({c})
         /\ last' = [op |-> "fire", check |-> c]
  /\ UNCHANGED <<hooks, store, lookups, posts, failures, sentCount, lastEv, deletedAfterSent,
               console, saves, regVars>>

\* The runner hands a delayed check to a worker, and redis.get fails: its
\* callback will be given the error and no reply.
CheckFireErr(h, job) ==
  /\ BagIn(job, queue)
  /\ job.type = h.name \o DelayedJobSuffix
  /\ BagCardinality(inflight) < MaxWorkers
  /\ queue' = queue (-) SetToBag({job})
  /\ LET c == [hook |-> h.name, messageId |-> job.data.messageId, job |-> job, err |-> TRUE,
               reply |-> None,
               seen |-> lastEv[<<h.name, job.data.messageId>>]]
     IN  /\ inflight' = inflight (+) SetToBag({c})
         /\ last' = [op |-> "fire", check |-> c]
  /\ UNCHANGED <<hooks, store, lookups, posts, redeliveries, failures, sentCount, lastEv,
               deletedAfterSent, console, saves, regVars>>

\* The callback of the check's redis.get runs; saveErr: the save of the
\* job it creates fails.  The runner queues a job that has failed again.
CheckCallbackSave(h, c, saveErr) ==
  /\ BagIn(c, inflight)
  /\ c.hook = h.name
  /\ inflight' = inflight (-) SetToBag({c})
  /\ LET r == checkCallback(h, c.messageId, c.err, c.reply, store)
         sv == save(h, r.jobs, saveErr)
     IN  /\ saveErr => r.jobs # <<>>
         /\ store' = r.store
         /\ queue' = (queue (+) SeqToBag(sv.queued))
                        (+) (IF r.failed THEN SetToBag({c.job}) ELSE EmptyBag)
         /\ console' = console \o sv.logged
         /\ saves' = [saves EXCEPT ![<<h.name, c.messageId>>] = @ + Len(r.jobs)]
         /\ lookups' = lookups (+) SeqToBag(r.lookups)
         /\ hooks' = (hooks \ {h}) \cup {r.hook}
         /\ last' = [op |-> "check", check |-> c, jobs |-> r.jobs,
                     recipients |-> r.recipients, lookups |-> r.lookups,
                     done |-> r.done, failed |-> r.failed, threw |-> r.threw,
                     saveErr |-> saveErr, logged |-> sv.logged]
  /\ UNCHANGED <<posts, redeliveries, failures, sentCount, lastEv, deletedAfterSent, regVars>>

\* The callback of the check's redis.get runs, the queue being available.
CheckCallback(h, c) == CheckCallbackSave(h, c, FALSE)

\* One call of getUser calls back, with an identity or with an error;
\* saveErr: the save of the job the callback creates fails.
IdentityReplySave(h, e, i, err, saveErr) ==
  /\ BagIn(e, lookups)
  /\ e.hook = h.name
  /\ i \in e.pending
  /\ err => failures < MaxLookupFailures
  /\ failures' = IF err THEN failures + 1 ELSE failures
  /\ \E data \in getUser(h, e.identities[i], err) :
       LET r == identityCallback(h, e, i, data)
           sv == save(h, r.jobs, saveErr)
       IN  /\ saveErr => r.jobs # <<>>
           /\ lookups' = (lookups (-) SetToBag({e}))
                           (+) (IF r.lookup.pending = {} THEN EmptyBag ELSE SetToBag({r.lookup}))
           /\ queue' = queue (+) SeqToBag(sv.queued)
           /\ console' = console \o sv.logged
           /\ saves' = [saves EXCEPT ![<<h.name, e.message.id>>] = @ + Len(r.jobs)]
           /\ last' = [op |-> "identity", lookup |-> e, i |-> i, err |-> err,
                       after |-> r.lookup, jobs |-> r.jobs,
                       saveErr |-> saveErr, logged |-> sv.logged]
  /\ UNCHANGED <<hooks, store, inflight, posts, redeliveries, sentCount, lastEv, deletedAfterSent,
               regVars>>

\* One call of getUser calls back, the queue being available.
IdentityReply(h, e, i, err) == IdentityReplySave(h, e, i, err, FALSE)

\* register(webhooksClient, options): the url and the paths are
\* normalised and the list of the registrations is requested.
Register(options) ==
  /\ Len(registers) < MaxRegisters
  /\ registers' = Append(registers,
                     [pc |-> "listing",
                      url |-> normaliseUrl(options.url),
                      secret |-> options.secret,
                      hooks |-> [i \in 1..Len(options.hooks) |->
                                  [options.hooks[i] EXCEPT !.path = stripPath(@)]],
                      currentHooks |-> None])
  /\ last' = [op |-> "register", options |-> options]
  /\ UNCHANGED <<engineVars, console, webhooks, apiCalls>>

\* register() called with an options object made for the call.
RegisterFresh(options) == Register(options) /\ UNCHANGED <<appOptions, routes>>

\* register() called with the options object the application holds: the
\* paths of the hook definitions in it are left without their leading '/'.
RegisterApp ==
  /\ Register(appOptions)
  /\ appOptions' = [appOptions EXCEPT !.hooks =
                      [i \in 1..Len(appOptions.hooks) |->
                         [appOptions.hooks[i] EXCEPT !.path = stripPath(@)]]]
  /\ UNCHANGED routes

\* listen(options) called with the application's options object.
Listen ==
  /\ routes' = routes \cup listen(appOptions.hooks)
  /\ last' = [op |-> "listen", options |-> appOptions]
  /\ UNCHANGED <<engineVars, console, webhooks, registers, apiCalls, appOptions>>

\* receipts(layerClient, redis, options) called with the application's
\* options object: it derives the hooks and calls listen with them.
Receipts ==
  /\ LET derived == [i \in 1..Len(appOptions.hooks) |-> DeriveHook(appOptions.hooks[i])]
     IN  /\ hooks' = {derived[i] : i \in 1..Len(derived)}
         /\ routes' = routes \cup listen(derived)
  /\ last' = [op |-> "receipts", options |-> appOptions]
  /\ UNCHANGED <<store, queue, inflight, lookups, posts, redeliveries, failures, sentCount,
               lastEv, deletedAfterSent, saves, console, webhooks, registers, apiCalls,
               appOptions>>

\* The requests hooks.forEach(registerHook) sent, one after the other.
RECURSIVE Concat(_)
Concat(seqs) == IF seqs = <<>> THEN <<>> ELSE Head(seqs) \o Concat(Tail(seqs))

\* The platform answers the list request of call n, or the request fails.
ListReply(n, err) ==
  /\ n \in 1..Len(registers)
  /\ registers[n].pc = "listing"
  /\ LET r == listCallback(registers[n], err, webhooks)
     IN  /\ registers' = [registers EXCEPT ![n].pc = "done", ![n].currentHooks = r.currentHooks]
         /\ apiCalls' = apiCalls (+) SeqToBag(Concat(r.sent))
         /\ console' = console \o r.logged
         /\ last' = [op |-> "listed", call |-> registers[n], err |-> err, list |-> webhooks,
                     sent |-> r.sent]
  /\ UNCHANGED <<engineVars, webhooks, appOptions, routes>>

\* The platform serves a request of the client: it creates the
\* registration or enables the one named; or the request fails, which the
\* callback of register logs.
Serve(req, err) ==
  /\ BagIn(req, apiCalls)
  /\ apiCalls' = apiCalls (-) SetToBag({req})
  /\ webhooks' =
       IF err THEN webhooks
       ELSE IF req.op = "register"
       THEN Append(webhooks,
                   Registration(Len(webhooks) + 1, Val(req.body).config.name,
                                Val(req.body).url, "active"))
       ELSE [i \in 1..Len(webhooks) |->
               IF webhooks[i].id = Val(req.id)
               THEN [webhooks[i] EXCEPT !.status = "active"] ELSE webhooks[i]]
  /\ console' = IF err /\ req.op = "register"
                THEN Append(console, [hook |-> Val(req.body).config.name, text |-> "error"])
                ELSE console
  /\ last' = [op |-> "serve", req |-> req, err |-> err]
  /\ UNCHANGED <<engineVars, registers, appOptions, routes>>

InitRegister ==
  /\ hooks = {}
  /\ store = <<>>
  /\ queue = EmptyBag
  /\ inflight = EmptyBag
  /\ lookups = EmptyBag
  /\ posts = 0
  /\ redeliveries = 0
  /\ failures = 0
  /\ sentCount = [k \in Keys |-> 0]
  /\ lastEv = [k \in Keys |-> "none"]
  /\ deletedAfterSent = [k \in Keys |-> FALSE]
  /\ last = [op |-> "init"]
  /\ console = <<>>
  /\ saves = [k \in Keys |-> 0]
  /\ webhooks \in InitialWebhooks
  /\ registers = <<>>
  /\ apiCalls = EmptyBag
  /\ appOptions = NoOptions
  /\ routes = {}

\* Calls of register() against the platform.
RegisterNext ==
  \/ \E options \in RegisterOptions : RegisterFresh(options)
  \/ \E n \in 1..Len(registers), err \in BOOLEAN : ListReply(n, err)
  \/ \E req \in BagToSet(apiCalls), err \in BOOLEAN : Serve(req, err)

SpecRegister == InitRegister /\ [][RegisterNext]_vars

\* The platform's events of a message: sent, read by everyone, deleted.
PlatformBodies ==
  { Body(HookName, "message.sent", Some(Message(id, UserSender, RS1)), None) : id \in MessageIds }
  \cup { Body(HookName, "message.read", Some(Message(id, UserSender, RS2)), None) : id \in MessageIds }
  \cup { Body(HookName, "message.deleted", Some(Message(id, UserSender, RS2)), None) : id \in MessageIds }

\* A message the Platform API sent, a bot's.
BotBodies ==
  { Body(HookName, "message.sent", Some(Message(id, BotSender, RS1)), None) : id \in MessageIds }

PlatformRequests == { [body |-> b, signature |-> Signed(b)] : b \in PlatformBodies }
BotRequests == { [body |-> b, signature |-> Signed(b)] : b \in BotBodies }

\* The receipts engine fed with the platform's events.
Next ==
  \/ \E h \in hooks, req \in PlatformRequests \cup BotRequests : Post(h, req, MaxPosts)
  \/ \E h \in hooks, job \in BagToSet(queue) : ProcessEvent(h, job)
  \/ \E h \in hooks, job \in BagToSet(queue), again \in BOOLEAN : CheckFire(h, job, again)
  \/ \E h \in hooks, c \in BagToSet(inflight) : CheckCallback(h, c)
  \/ \E h \in hooks, e \in BagToSet(lookups) : \E i \in e.pending, err \in BOOLEAN :
       IdentityReply(h, e, i, err)

Spec == Init /\ [][Next]_vars

\* The listener fed with every request, and the event processor.
HttpNext ==
  \/ \E h \in hooks, req \in Requests : Post(h, req, MaxPosts)
  \/ \E h \in hooks, job \in BagToSet(queue) : ProcessEvent(h, job)

SpecHttp == Init /\ [][HttpNext]_vars

\* The listener answering the platform's verification requests and
\* receiving its events.
GetNext ==
  \/ \E h \in hooks, req \in GetRequests : Get(h, req)
  \/ \E h \in hooks, req \in PlatformRequests : Post(h, req, MaxFairPosts)
  \/ \E h \in hooks, job \in BagToSet(queue) : ProcessEvent(h, job)

SpecGet == Init /\ [][GetNext]_vars

\* receipts() called with a hook definition written as documented; a later
\* ms throws on the undefined hook.delay, and receipts() sets nothing up.
InitDocumented ==
  /\ hooks \in {{DeriveHook(d)} : d \in DocumentedDefinitions} \cup {{}}
  /\ store = <<>>
  /\ queue = EmptyBag
  /\ inflight = EmptyBag
  /\ lookups = EmptyBag
  /\ posts = 0
  /\ redeliveries = 0
  /\ failures = 0
  /\ sentCount = [k \in Keys |-> 0]
  /\ lastEv = [k \in Keys |-> "none"]
  /\ deletedAfterSent = [k \in Keys |-> FALSE]
  /\ last = [op |-> "init"]
  /\ console = <<>>
  /\ saves = [k \in Keys |-> 0]
  /\ webhooks = <<>>
  /\ registers = <<>>
  /\ apiCalls = EmptyBag
  /\ appOptions = NoOptions
  /\ routes = {}

DocumentedNext ==
  \/ \E h \in hooks, req \in PlatformRequests : Post(h, req, MaxPosts)
  \/ \E h \in hooks, job \in BagToSet(queue) : ProcessEvent(h, job)
  \/ \E h \in hooks, job \in BagToSet(queue) : CheckFire(h, job, FALSE)
  \/ \E h \in hooks, c \in BagToSet(inflight) : CheckCallback(h, c)

SpecDocumented == InitDocumented /\ [][DocumentedNext]_vars

\* receipts() called with identity lookups on, built in or the
\* application's own, for a hook that watches sent and delivered.
IdentityDefinitions ==
  { Definition(HookName, Some(<<"sent", "delivered">>), i) : i \in {"true", "function"} }

InitIdentity ==
  /\ hooks \in {{DeriveHook(d)} : d \in IdentityDefinitions}
  /\ store = <<>>
  /\ queue = EmptyBag
  /\ inflight = EmptyBag
  /\ lookups = EmptyBag
  /\ posts = 0
  /\ redeliveries = 0
  /\ failures = 0
  /\ sentCount = [k \in Keys |-> 0]
  /\ lastEv = [k \in Keys |-> "none"]
  /\ deletedAfterSent = [k \in Keys |-> FALSE]
  /\ last = [op |-> "init"]
  /\ console = <<>>
  /\ saves = [k \in Keys |-> 0]
  /\ webhooks = <<>>
  /\ registers = <<>>
  /\ apiCalls = EmptyBag
  /\ appOptions = NoOptions
  /\ routes = {}

\* The engine fed with the platform's events, each delayed check handed out
\* once.
FairNext ==
  \/ \E h \in hooks, req \in PlatformRequests : Post(h, req, MaxFairPosts)
  \/ \E h \in hooks, job \in BagToSet(queue) : ProcessEvent(h, job)
  \/ \E h \in hooks, job \in BagToSet(queue) : CheckFire(h, job, FALSE)
  \/ \E h \in hooks, c \in BagToSet(inflight) : CheckCallback(h, c)
  \/ \E h \in hooks, e \in BagToSet(lookups) : \E i \in e.pending, err \in BOOLEAN :
       IdentityReply(h, e, i, err)

\* The engine fed with the platform's events, each delayed check handed
\* out once, the callbacks of the store and of the identity lookups being
\* run eventually.
SpecIdentity == InitIdentity /\ [][FairNext]_vars

\* The engine with a store whose reads may fail and a queue whose saves
\* may fail.
FaultNext ==
  \/ \E h \in hooks, req \in PlatformRequests : Post(h, req, MaxFairPosts)
  \/ \E h \in hooks, job \in BagToSet(queue) : ProcessEvent(h, job)
  \/ \E h \in hooks, job \in BagToSet(queue) : CheckFire(h, job, FALSE)
  \/ \E h \in hooks, job \in BagToSet(queue) : CheckFireErr(h, job)
  \/ \E h \in hooks, c \in BagToSet(inflight), saveErr \in BOOLEAN :
       CheckCallbackSave(h, c, saveErr)
  \/ \E h \in hooks, e \in BagToSet(lookups) : \E i \in e.pending, err, saveErr \in BOOLEAN :
       IdentityReplySave(h, e, i, err, saveErr)

SpecFaults == Init /\ [][FaultNext]_vars

\* Two hooks of one application that track the same messages; the second
\* name contains the separator of the key and the head of a message id.
SecondHookName == <<"h", "-", "m">>
TwoHookIds == { <<"m", "1">>, <<"m", "2">> }
TwoHookDefinitions ==
  { Definition(HookName, Some(<<"sent", "delivered">>), "off"),
    Definition(SecondHookName, Some(<<"sent", "delivered">>), "off") }
TwoHookKeys == {<<DeriveHook(d).name, id>> : d \in TwoHookDefinitions, id \in TwoHookIds}

\* The platform sends each hook the events of the messages under the
\* hook's registered name.
TwoHookRequests ==
  { [body |-> b, signature |-> Signed(b)] :
      b \in { Body(d.name, t, Some(Message(id, UserSender, RS1)), None) :
                d \in TwoHookDefinitions, t \in {"message.sent", "message.read", "message.deleted"},
                id \in TwoHookIds } }

InitTwoHooks ==
  /\ hooks = {DeriveHook(d) : d \in TwoHookDefinitions}
  /\ store = <<>>
  /\ queue = EmptyBag
  /\ inflight = EmptyBag
  /\ lookups = EmptyBag
  /\ posts = 0
  /\ redeliveries = 0
  /\ failures = 0
  /\ sentCount = [k \in TwoHookKeys |-> 0]
  /\ lastEv = [k \in TwoHookKeys |-> "none"]
  /\ deletedAfterSent = [k \in TwoHookKeys |-> FALSE]
  /\ last = [op |-> "init"]
  /\ console = <<>>
  /\ saves = [k \in TwoHookKeys |-> 0]
  /\ webhooks = <<>>
  /\ registers = <<>>
  /\ apiCalls = EmptyBag
  /\ appOptions = NoOptions
  /\ routes = {}

TwoHookNext ==
  \/ \E h \in hooks, req \in TwoHookRequests : Post(h, req, MaxFairPosts)
  \/ \E h \in hooks, job \in BagToSet(queue) : ProcessEvent(h, job)
  \/ \E h \in hooks, job \in BagToSet(queue) : CheckFire(h, job, FALSE)
  \/ \E h \in hooks, c \in BagToSet(inflight) : CheckCallback(h, c)

SpecTwoHooks == InitTwoHooks /\ [][TwoHookNext]_vars

\* The status events of one message in the order the platform sends them:
\* sent, delivered to one recipient more, read by everyone.
RSDelivered == << <<"A", "delivered">>, <<"B", "delivered">>, <<"C", "read">> >>
PlatformOrder ==
  << Body(HookName, "message.sent", Some(Message(<<"m", "1">>, UserSender, RS1)), None),
     Body(HookName, "message.delivered", Some(Message(<<"m", "1">>, UserSender, RSDelivered)), None),
     Body(HookName, "message.read", Some(Message(<<"m", "1">>, UserSender, RS2)), None) >>

\* The engine fed with the events of a message in the platform's order, the
\* event jobs being taken by concurrent workers in any order.
OrderedNext ==
  \/ \E h \in hooks :
       /\ posts < Len(PlatformOrder)
       /\ Post(h, [body |-> PlatformOrder[posts + 1], signature |-> Signed(PlatformOrder[posts + 1])],
               Len(PlatformOrder))
  \/ \E h \in hooks, job \in BagToSet(queue) : ProcessEvent(h, job)
  \/ \E h \in hooks, job \in BagToSet(queue) : CheckFire(h, job, FALSE)
  \/ \E h \in hooks, c \in BagToSet(inflight) : CheckCallback(h, c)

SpecOrdered == Init /\ [][OrderedNext]_vars

\* The options object of an application that registers its hook and
\* listens for it: the base url with or without its final '/' or the
\* default port, the path with or without its leading '/'.
SetupPaths == { <<"/", "r">>, <<"r">> }
SetupOptions ==
  { [url |-> u, secret |-> Secret,
     hooks |-> << [Definition(HookName, Some(<<"delivered">>), "off") EXCEPT !.path = p] >>] :
      u \in Urls, p \in SetupPaths }

InitSetup ==
  /\ hooks = {}
  /\ store = <<>>
  /\ queue = EmptyBag
  /\ inflight = EmptyBag
  /\ lookups = EmptyBag
  /\ posts = 0
  /\ redeliveries = 0
  /\ failures = 0
  /\ sentCount = [k \in Keys |-> 0]
  /\ lastEv = [k \in Keys |-> "none"]
  /\ deletedAfterSent = [k \in Keys |-> FALSE]
  /\ last = [op |-> "init"]
  /\ console = <<>>
  /\ saves = [k \in Keys |-> 0]
  /\ webhooks = <<>>
  /\ registers = <<>>
  /\ apiCalls = EmptyBag
  /\ appOptions \in SetupOptions
  /\ routes = {}

\* The application sets itself up: register, listen and receipts in any
\* order, against the platform.
SetupNext ==
  \/ RegisterApp
  \/ Listen
  \/ Receipts
  \/ \E n \in 1..Len(registers), err \in BOOLEAN : ListReply(n, err)
  \/ \E req \in BagToSet(apiCalls), err \in BOOLEAN : Serve(req, err)

SpecSetup == InitSetup /\ [][SetupNext]_vars

FairSpec ==
  /\ Init
  /\ [][FairNext]_vars
  /\ WF_vars(\E h \in hooks, c \in BagToSet(inflight) : CheckCallback(h, c))
  /\ WF_vars(\E h \in hooks, e \in BagToSet(lookups) : \E i \in e.pending, err \in BOOLEAN :
               IdentityReply(h, e, i, err))

\* ================================================================ claims

\* The header equals the HMAC computed from the secret and the body.
ValidSignature(req) == req.signature = Some(Hmac(Secret, Utf8(Stringify(req.body))))

\* long = short + ":" + suffix, for some suffix.
Namespaced(long, short) ==
  \E n \in 0..Len(long) :
    long = short \o <<":">> \o SubSeq(long, Len(long) - n + 1, Len(long))

\* The event's webhook name is neither the listener's name nor a name the
\* listener's name extends with ":" + suffix.
ForeignEvent(listening, configName) ==
  configName # listening /\ ~Namespaced(listening, configName)

\* A message of the Platform API: a sender name and no user id.
BotEcho(body) ==
  /\ body.message # None
  /\ Val(body.message).sender.name # None
  /\ Val(body.message).sender.user_id = None

\* The jobs of one type in the queue, counted with their copies.
JobsOfType(q, type) ==
  BagCardinality([j \in {x \in DOMAIN q : x.type = type} |-> q[j]])

\* The notification jobs in the queue for a hook's message.
Notifications(q, h, id) ==
  BagCardinality([j \in {x \in DOMAIN q : x.type = h.originalName /\ x.data.message.id = id}
                    |-> q[j]])

\* The statuses a hook watches, as a set.
Watched(h) ==
  IF h.receipts.reportForStatus = None THEN {}
  ELSE {Val(h.receipts.reportForStatus)[i] : i \in 1..Len(Val(h.receipts.reportForStatus))}

\* The user ids of a snapshot whose status the hook watches.
WatchedUsers(h, message) ==
  {message.recipient_status[i][1] :
     i \in {n \in 1..Len(message.recipient_status) : message.recipient_status[n][2] \in Watched(h)}}

\* recipients lists exactly the watched users of the snapshot, each once.
ExactlyWatched(recipients, h, message) ==
  /\ {recipients[i] : i \in 1..Len(recipients)} = WatchedUsers(h, message)
  /\ Cardinality(WatchedUsers(h, message)) = Len(recipients)

\* The step is the callback of a delayed check.
IsCheckCallback == BagCardinality(inflight') < BagCardinality(inflight)

\* C1 as stated: for a (hook, message) whose message.sent was processed
\* once, at most one notification job is ever in the queue on the original
\* hook name, however often and on however many workers the delayed check
\* is delivered.
C1_AtMostOne ==
  \A h \in hooks, id \in MessageIds :
    sentCount[<<h.name, id>>] = 1 => Notifications(queue, h, id) <= 1

\* C2: when the delayed check of a message reads the store after
\* message.sent and then message.deleted were processed for it (the deleted
\* being the last event processed), it finds no snapshot, and its callback
\* creates no job, starts no lookup, throws nothing and calls done() once,
\* without an error.
C2_DeletedSilent ==
  /\ [](\A c \in BagToSet(inflight) : c.seen = "message.deleted" => c.reply = None)
  /\ [][ (IsCheckCallback /\ last'.check.seen = "message.deleted") =>
           /\ queue' = queue
           /\ lookups' = lookups
           /\ store' = store
           /\ ~last'.threw
           /\ last'.done = 1 ]_vars

\* A check armed by a sent ran after the deleted and completed.
C2_Witness ==
  /\ last.op = "check"
  /\ last.check.seen = "message.deleted"
  /\ sentCount[<<last.check.hook, last.check.messageId>>] = 1
  /\ deletedAfterSent[<<last.check.hook, last.check.messageId>>]
  /\ last.done = 1

\* The snapshots the platform's events carry.
Snapshots == {Message(id, UserSender, rs) : id \in MessageIds, rs \in Bodies}

\* A check that found snapshot m with a watched recipient awaits its callback.
Qualifying(m) ==
  \E c \in BagToSet(inflight), h \in hooks :
    /\ c.hook = h.name
    /\ c.reply = Some(Stringify(m))
    /\ WatchedUsers(h, m) # {}

\* The last step created the notification job of snapshot m.
Notified(m) ==
  /\ last.op \in {"check", "identity"}
  /\ \E h \in hooks, i \in 1..Len(last.jobs) :
       /\ last.jobs[i].type = h.originalName
       /\ last.jobs[i].data.message = m
       /\ BagIn(last.jobs[i], queue)

\* C3: a delayed check that finds the snapshot still stored, with at least
\* one recipient whose status is in the hook's filter, leads to a
\* notification job of that snapshot on the original hook name (the
\* callbacks of the store and of the identity lookups being run
\* eventually); and a notification job of a message is created only by a
\* step of a delayed check of that message: its callback, or the last
\* identity callback of its evaluation.
C3_Notified ==
  /\ \A m \in Snapshots : Qualifying(m) ~> Notified(m)
  /\ [][ \A h \in hooks, id \in MessageIds :
           Notifications(queue', h, id) > Notifications(queue, h, id) =>
             \/ last'.op = "check" /\ last'.check.messageId = id /\ last'.check.hook = h.name
             \/ last'.op = "identity" /\ last'.lookup.message.id = id
                  /\ last'.lookup.hook = h.name ]_vars

\* With identity lookups on, the last callback created the notification.
C3_Witness ==
  /\ last.op = "identity"
  /\ last.jobs # <<>>
  /\ \E h \in hooks : /\ last.jobs[1].type = h.originalName
                      /\ WatchedUsers(h, last.jobs[1].data.message) # {}
                      /\ Notifications(queue, h, last.jobs[1].data.message.id) > 0

\* C4: the recipients of a notification are exactly the user ids of the
\* evaluated snapshot whose status is in the watched set, each once: for
\* every notification job in the queue, and for every evaluation of a
\* snapshot a check found.
C4_Recipients ==
  /\ \A j \in BagToSet(queue), h \in hooks :
       j.type = h.originalName => ExactlyWatched(j.data.recipients, h, j.data.message)
  /\ (last.op = "check" /\ last.check.reply # None /\ ~last.threw) =>
       \E h \in hooks :
         /\ h.name = last.check.hook
         /\ ExactlyWatched(last.recipients, h, Parse(Val(last.check.reply)))
         /\ \A i \in 1..Len(last.jobs) :
              /\ last.jobs[i].data.recipients = last.recipients
              /\ last.jobs[i].data.message = Parse(Val(last.check.reply))

\* {A: sent, B: delivered, C: read} watched for {sent, delivered}: A and B.
C4_Witness ==
  \E j \in BagToSet(queue), h \in hooks :
    /\ j.type = h.originalName
    /\ Watched(h) = {"sent", "delivered"}
    /\ j.data.message.recipient_status = RS1
    /\ j.data.recipients = <<"A", "B">>

\* C5: the callback of a check that found a snapshot none of whose
\* recipients has a watched status creates no job and starts no lookup.
C5_NoneWatched ==
  [][ ( /\ IsCheckCallback
        /\ last'.check.reply # None
        /\ \E h \in hooks : /\ h.name = last'.check.hook
                            /\ WatchedUsers(h, Parse(Val(last'.check.reply))) = {} ) =>
        /\ queue' = queue
        /\ lookups' = lookups ]_vars

\* A check evaluated the snapshot in which everyone has read the message.
C5_Witness ==
  /\ last.op = "check"
  /\ last.check.reply = Some(Stringify(Message(last.check.messageId, UserSender, RS2)))
  /\ last.recipients = <<>>
  /\ last.jobs = <<>>
  /\ \A h \in hooks : Notifications(queue, h, last.check.messageId) = 0

\* C6 as stated: once message.sent and later message.deleted were both
\* processed for a key, the store holds no snapshot under it, in whatever
\* order the workers process the other events of the message.
C6_AbsentAfterDeleted ==
  \A k \in Keys : deletedAfterSent[k] => Key(k[1], k[2]) \notin DOMAIN store

\* No job and no stored snapshot concerns a bot's message.
NoBotMessageAnywhere ==
  /\ \A j \in BagToSet(queue), h \in hooks :
       /\ j.type = h.name =>
            (j.data.message = None \/ Val(j.data.message).sender.user_id # None)
       /\ j.type = h.originalName => j.data.message.sender.user_id # None
  /\ \A k \in DOMAIN store : Parse(store[k]).sender.user_id # None

\* C7: a POST of a message whose sender has a name and no user id changes
\* neither the queue nor the store, and is answered 200 when its signature
\* is valid and its config name is not foreign; no job and no snapshot ever
\* holds such a message.
C7_BotSuppressed ==
  /\ []NoBotMessageAnywhere
  /\ [][ (posts' # posts /\ BotEcho(last'.req.body)) =>
           /\ queue' = queue
           /\ store' = store
           /\ (ValidSignature(last'.req)
                 /\ ~ForeignEvent(last'.hook, last'.req.body.config.name))
                => last'.sent = <<200>> ]_vars

\* A bot's message, well signed and for this hook, was answered 200 with no job.
C7_Witness ==
  /\ last.op = "post"
  /\ BotEcho(last.req.body)
  /\ ValidSignature(last.req)
  /\ ~ForeignEvent(last.hook, last.req.body.config.name)
  /\ last.sent = <<200>>
  /\ last.jobs = <<>>

\* C8: every POST gets exactly one response: 403 when the header is not
\* the computed HMAC, whatever the event's config name; otherwise 400 when
\* the event is foreign; otherwise 200, for accepted events and for
\* suppressed bot echoes alike.
C8_OneResponse ==
  last.op = "post" =>
    last.sent = << IF ~ValidSignature(last.req) THEN 403
                   ELSE IF ForeignEvent(last.hook, last.req.body.config.name) THEN 400
                   ELSE 200 >>

\* A foreign event with a bad signature was answered 403.
C8_Witness ==
  /\ last.op = "post"
  /\ ~ValidSignature(last.req)
  /\ ForeignEvent(last.hook, last.req.body.config.name)
  /\ last.sent = <<403>>

\* C9: a POST adds exactly one job to the queue, of the hook's name and with
\* the event's timestamp, type, conversation and message, if and only if
\* its signature is valid, its config name is not foreign and its message
\* is no bot echo; otherwise (403, 400, bot echo) it adds no job; no POST
\* changes the store.
C9_EnqueueIff ==
  [][ posts' # posts =>
        LET req == last'.req
            accepted == /\ ValidSignature(req)
                        /\ ~ForeignEvent(last'.hook, req.body.config.name)
                        /\ ~BotEcho(req.body)
        IN  /\ store' = store
            /\ last'.sent \in {<<403>>, <<400>>} => queue' = queue
            /\ IF accepted
               THEN \E j \in BagToSet(queue') :
                      /\ queue' = queue (+) SetToBag({j})
                      /\ j.type = last'.hook
                      /\ j.data.timestamp = req.body.event.created_at
                      /\ j.data.type = req.body.event.type
                      /\ j.data.conversation = req.body.conversation
                      /\ j.data.message = req.body.message
               ELSE queue' = queue ]_vars

\* An accepted conversation event is a job in the queue.
C9_Witness ==
  /\ last.op = "post"
  /\ last.sent = <<200>>
  /\ last.req.body.conversation # None
  /\ Len(last.jobs) = 1
  /\ BagIn(last.jobs[1], queue)
  /\ last.jobs[1].data.conversation = last.req.body.conversation

\* C10 as stated: an event is foreign (400, no job) exactly when its
\* webhook name is neither the listener's name nor the listener's name
\* + ":" + suffix.
C10_AsStated ==
  (last.op = "post" /\ ValidSignature(last.req)) =>
    ( (last.sent = <<400>> /\ last.jobs = <<>>)
      <=> ( /\ last.req.body.config.name # last.hook
            /\ ~Namespaced(last.req.body.config.name, last.hook) ) )

\* C10, amended: an event is foreign (400, no job) exactly when its webhook
\* name is neither the listener's name nor a name N such that the
\* listener's name is N + ":" + suffix.
C10_Foreign ==
  (last.op = "post" /\ ValidSignature(last.req)) =>
    ( (last.sent = <<400>> /\ last.jobs = <<>>)
      <=> ForeignEvent(last.hook, last.req.body.config.name) )

\* The receipts listener h:receipts accepted an event named h.
C10_Witness ==
  /\ last.op = "post"
  /\ ValidSignature(last.req)
  /\ last.hook = HookName \o ReceiptsSuffix
  /\ last.req.body.config.name = HookName
  /\ last.sent = <<200>>
  /\ last.jobs # <<>>

\* The base url the application registers its hooks under.
BaseUrl == <<"u", "/">>

\* C11: a well-signed event carrying the config name of the registration
\* that register() makes for a hook definition is answered 200 by the
\* listener receipts() sets up for the same definition, and, unless it is a
\* bot echo, is one job of the type the event processor of the derived
\* hook consumes.
C11_RegisteredAccepted ==
  \A d \in Definitions :
    ( /\ last.op = "post"
      /\ ValidSignature(last.req)
      /\ last.hook = DeriveHook(d).name
      /\ last.req.body.config.name = registerWebhook(BaseUrl, Secret, d).config.name ) =>
        /\ last.sent = <<200>>
        /\ ~BotEcho(last.req.body) =>
             /\ Len(last.jobs) = 1
             /\ last.jobs[1].type = DeriveHook(d).name
             /\ last.jobs[1].data.message = last.req.body.message
             /\ BagIn(last.jobs[1], queue)

\* The platform's message.deleted for the registered name was accepted by
\* the receipts listener and queued for the event processor.
C11_Witness ==
  /\ last.op = "post"
  /\ ValidSignature(last.req)
  /\ last.req.body.config.name = HookName
  /\ last.req.body.event.type = "message.deleted"
  /\ \E h \in hooks : /\ h.name = last.hook
                      /\ h.name = h.originalName \o ReceiptsSuffix
                      /\ last.req.body.config.name = h.originalName
                      /\ JobsOfType(queue, h.name) > 0
  /\ last.sent = <<200>>

\* The number of milliseconds a documented delay stands for: the number
\* itself, or the duration string parsed.
Milliseconds(delay) == IF IsStr(delay) THEN Val(ms(Some(delay))).num ELSE delay.num

\* C12 as stated: for a hook defined as documented with receipts.delay = D,
\* every delayed check a message.sent arms is a job delayed by D, in
\* milliseconds.
C12_DelayAsDocumented ==
  \A d \in DocumentedDefinitions, h \in hooks, j \in BagToSet(queue) :
    (h = DeriveHook(d) /\ j.type = h.name \o DelayedJobSuffix) =>
      j.delay = Some(Num(Milliseconds(Val(d.receipts.delay))))

\* C13 as stated: for a hook defined as the README documents, with
\* receipts.recipient_status_filter = F, the evaluation of a snapshot a
\* check found reports exactly the recipients whose status is in F, in a
\* notification job when there is one.
C13_FilterAsDocumented ==
  \A d \in ReadmeDefinitions, h \in hooks :
    ( /\ h = DeriveHook(d)
      /\ last.op = "check"
      /\ last.check.hook = h.name
      /\ last.check.reply # None ) =>
        LET F == Val(d.receipts.recipient_status_filter)
            m == Parse(Val(last.check.reply))
            InF(pair) == \E i \in 1..Len(F) : F[i] = pair[2]
            kept == SelectSeq(m.recipient_status, InF)
            expected == [i \in 1..Len(kept) |-> kept[i][1]]
        IN  /\ last.recipients = expected
            /\ expected # <<>> =>
                 \E j \in BagToSet(queue) :
                   /\ j.type = h.originalName
                   /\ j.data.message = m
                   /\ j.data.recipients = expected

\* The user ids an evaluation resolves: the sender and the recipients.
ResolvedIds(message, recipients) ==
  {Val(message.sender.user_id)} \cup {recipients[i] : i \in 1..Len(recipients)}

\* C14 as stated: with identity lookups on, built in or the application's
\* own, the callback of a lookup that failed leaves null under its id and
\* the callback of one that succeeded the record; when the last lookup has
\* reported the notification job is created whatever failed, and every
\* notification job has an entry for the sender and for each recipient,
\* null or the id's record.
C14_FailureIsolated ==
  /\ last.op = "identity" =>
       /\ last.after.identityHash[last.lookup.identities[last.i]] =
            IF last.err THEN None ELSE Some(IdentityRecord(last.lookup.identities[last.i]))
       /\ last.after.pending = {} =>
            \E j \in BagToSet(queue), h \in hooks :
              /\ h.name = last.lookup.hook
              /\ j.type = h.originalName
              /\ j.data.message = last.lookup.message
              /\ j.data.identities = last.after.identityHash
  /\ \A j \in BagToSet(queue), h \in hooks :
       j.type = h.originalName =>
         /\ DOMAIN j.data.identities = ResolvedIds(j.data.message, j.data.recipients)
         /\ \A u \in DOMAIN j.data.identities :
              j.data.identities[u] \in {None, Some(IdentityRecord(u))}

\* C15: with identity lookups on, the callback of a check starts one
\* lookup for the sender and for each recipient, all of them before any
\* has reported, and creates no job itself; an identity callback creates
\* the notification job, one, exactly when it is the last of its
\* evaluation to report, whichever id it reports and whether it reports a
\* failure; an evaluation whose lookups have all reported is over.
C15_JoinOnce ==
  /\ (last.op = "check" /\ last.lookups # <<>>) =>
       /\ last.jobs = <<>>
       /\ Len(last.lookups) = 1
       /\ last.lookups[1].count = 0
       /\ last.lookups[1].pending = 1..Len(last.lookups[1].identities)
       /\ {last.lookups[1].identities[i] : i \in last.lookups[1].pending} =
            ResolvedIds(last.lookups[1].message, last.recipients)
  /\ last.op = "identity" =>
       /\ Len(last.jobs) = IF last.after.pending = {} THEN 1 ELSE 0
       /\ last.after.pending = last.lookup.pending \ {last.i}
       /\ \A n \in 1..Len(last.jobs) : /\ last.jobs[n].data.message = last.lookup.message
                                        /\ BagIn(last.jobs[n], queue)
  /\ \A e \in BagToSet(lookups) :
       /\ e.pending # {}
       /\ e.count + Cardinality(e.pending) = Len(e.identities)

\* The lookup started first reported last, a failure, and the job was created.
C15_Witness ==
  /\ last.op = "identity"
  /\ last.i = 1
  /\ last.err
  /\ Len(last.lookup.identities) = 3
  /\ last.after.count = 3
  /\ Len(last.jobs) = 1

\* C16: every job that is neither an event job nor a delayed check is a
\* notification: its type is the original name of the hook, the name the
\* hook listens as without ':receipts', and its data are message,
\* recipients and identities; the job a step creates carries the snapshot
\* evaluated, the recipients filtered from it and the identity map (empty
\* with lookups off).
C16_Payload ==
  /\ \A j \in BagToSet(queue) : \E h \in hooks :
       \/ j.type = h.name
       \/ j.type = h.name \o DelayedJobSuffix
       \/ /\ j.type \o ReceiptsSuffix = h.name
          /\ DOMAIN j.data = {"message", "recipients", "identities"}
  /\ (last.op = "check" /\ last.jobs # <<>>) =>
       /\ Len(last.jobs) = 1
       /\ last.jobs[1].type \o ReceiptsSuffix = last.check.hook
       /\ last.jobs[1].data = [message |-> Parse(Val(last.check.reply)),
                               recipients |-> last.recipients,
                               identities |-> <<>>]
  /\ (last.op = "identity" /\ last.jobs # <<>>) =>
       /\ Len(last.jobs) = 1
       /\ last.jobs[1].type \o ReceiptsSuffix = last.lookup.hook
       /\ last.jobs[1].data = [message |-> last.lookup.message,
                               recipients |-> last.lookup.recipients,
                               identities |-> last.after.identityHash]

\* A notification with identities is in the queue under the name h.
C16_Witness ==
  \E j \in BagToSet(queue) :
    /\ j.type = HookName
    /\ j.data.recipients = <<"B">>
    /\ DOMAIN j.data.identities = {"S", "B"}
    /\ j.data.message.id \in MessageIds

\* C17 as stated: the failure of publishing a notification job is logged,
\* and the notification dropped, only after save was attempted as often
\* as the job's attempts say, 10 times.
C17_PublishRetried ==
  (last.op \in {"check", "identity"} /\ last.logged # <<>>) =>
    \A n \in 1..Len(last.jobs) :
      /\ last.jobs[n].attempts = 10
      /\ \E h \in hooks :
           /\ last.jobs[n].type = h.originalName
           /\ saves[<<h.name, last.jobs[n].data.message.id>>] >= last.jobs[n].attempts

\* C18 as stated: a delayed check whose read of the store failed is
\* failed, done() being given the error, and is in the queue again for the
\* runner to retry; a check that found no snapshot completes and is not
\* queued again.
C18_StoreFailureRetried ==
  last.op = "check" =>
    /\ last.check.err => (last.failed /\ BagIn(last.check.job, queue))
    /\ (~last.check.err /\ last.check.reply = None) =>
         (~last.failed /\ ~BagIn(last.check.job, queue))

\* The positions in a list of the registrations that have the config name
\* and the target url of a request to register.
MatchingAt(list, wanted) ==
  {n \in 1..Len(list) : /\ list[n].config.name = wanted.config.name
                         /\ list[n].target_url = wanted.url}

C20_AtMostOne ==
  \A a, b \in 1..Len(webhooks) :
    ( /\ webhooks[a].config.name = webhooks[b].config.name
      /\ webhooks[a].target_url = webhooks[b].target_url ) => a = b

\* C21 as stated: a GET answers 200 with the verification_challenge
\* parameter as the body when the parameter is present, and 200 with an
\* empty body when it is absent.
C21_AsStated ==
  last.op = "get" =>
    /\ Len(last.sent) = 1
    /\ last.sent[1].status = 200
    /\ last.sent[1].body =
         IF last.req.query.verification_challenge # None
         THEN Val(last.req.query.verification_challenge)
         ELSE Str(<<>>)

\* C21: a GET answers once, with status 200; the body is the
\* verification_challenge parameter when that is a string that is not
\* empty, and the status text 'OK' when the parameter is absent or empty.
C21_Echo ==
  last.op = "get" =>
    LET c == last.req.query.verification_challenge
    IN  /\ Len(last.sent) = 1
        /\ last.sent[1].status = 200
        /\ (c # None /\ IsStr(Val(c)) /\ Val(c).str # <<>>) => last.sent[1].body = Val(c)
        /\ (c = None \/ Val(c) = Str(<<>>)) => last.sent[1].body = Str(<<"O", "K">>)

\* A challenge was echoed.
C21_Witness ==
  /\ last.op = "get"
  /\ last.req.query.verification_challenge = Some(Str(<<"c", "1">>))
  /\ last.sent = << [status |-> 200, body |-> Str(<<"c", "1">>)] >>

\* The delayed checks of a hook for a message that wait in a queue.
Armed(q, h, id) == CopiesIn(DelayedJob(h, [id |-> id]), q)

\* The step processes an event job of message.sent for the message.
ProcessesSent(h, id) ==
  /\ last'.op = "event"
  /\ last'.hook = h.name
  /\ last'.job.data.type = "message.sent"
  /\ last'.job.data.message # None
  /\ Val(last'.job.data.message).id = id
  /\ Val(last'.job.data.message).sender.name = None

\* C22: a step that processes a message.sent event adds exactly one delayed
\* check for its message to the queue, and no other step (processing
\* message.delivered, message.read or message.deleted among them) adds one;
\* the count of the sent events processed grows with the checks armed.
C22_ArmedBySent ==
  [][ \A h \in hooks, id \in MessageIds :
        IF ProcessesSent(h, id)
        THEN /\ Armed(queue', h, id) = Armed(queue, h, id) + 1
             /\ last'.jobs = << DelayedJob(h, [id |-> id]) >>
             /\ sentCount'[<<h.name, id>>] = sentCount[<<h.name, id>>] + 1
        ELSE /\ Armed(queue', h, id) <= Armed(queue, h, id)
             /\ last'.op = "event" => last'.jobs = <<>>
             /\ sentCount'[<<h.name, id>>] = sentCount[<<h.name, id>>] ]_vars

\* Two message.sent events of a message processed, two checks armed, and a
\* message.read processed after them.
C22_Witness ==
  \E h \in hooks, id \in MessageIds :
    /\ sentCount[<<h.name, id>>] = 2
    /\ Armed(queue, h, id) = 2
    /\ last.op = "event"
    /\ last.job.data.type = "message.read"

\* C23 as stated: when the callback of a delayed check was given a
\* snapshot, the store holds no snapshot under the check's key once the
\* callback has run, whatever the evaluation of the snapshot did.
C23_Consumed ==
  (last.op = "check" /\ last.check.reply # None) =>
    Key(last.check.hook, last.check.messageId) \notin DOMAIN store


\* The step runs the event processor or the callback of a delayed check of
\* the hook for the message.
Touches(h, id) ==
  \/ /\ last'.op = "event"
     /\ last'.hook = h.name
     /\ last'.job.data.message # None
     /\ Val(last'.job.data.message).id = id
  \/ /\ last'.op = "check"
     /\ last'.check.hook = h.name
     /\ last'.check.messageId = id

\* C24: the keys of two different (hook name, message id) pairs differ; a
\* step changes the store under the key of a pair only when it processes an
\* event or a delayed check of that pair; and the snapshot a delayed check
\* is given is one that an event of its own hook and message stored.
C24_OwnKeyOnly ==
  [][ /\ \A h1, h2 \in hooks, id1, id2 \in TwoHookIds :
           Key(h1.name, id1) = Key(h2.name, id2) => (h1.name = h2.name /\ id1 = id2)
      /\ \A h \in hooks, id \in TwoHookIds :
           LET k == Key(h.name, id)
           IN  \/ Touches(h, id)
               \/ /\ (k \in DOMAIN store') = (k \in DOMAIN store)
                  /\ k \in DOMAIN store => store'[k] = store[k]
      /\ (last'.op = "fire" /\ last'.check.reply # None) =>
           /\ sentCount'[<<last'.check.hook, last'.check.messageId>>] > 0
           /\ Parse(Val(last'.check.reply)).id = last'.check.messageId ]_vars

\* Both hooks hold a snapshot of the same message, and the delayed check of
\* one of them has consumed its own.
C24_Witness ==
  \E h1, h2 \in hooks, id \in TwoHookIds :
    /\ h1 # h2
    /\ last.op = "check"
    /\ last.check.hook = h1.name
    /\ last.check.messageId = id
    /\ last.check.reply # None
    /\ Key(h1.name, id) \notin DOMAIN store
    /\ Key(h2.name, id) \in DOMAIN store

\* C25 as stated: when a delayed check fires with every event job of its
\* hook processed, the snapshot it is given is the message of the latest
\* status event the platform sent.
C25_LatestEvaluated ==
  ( /\ last.op = "fire"
    /\ last.check.reply # None
    /\ \A job \in BagToSet(queue) : job.type # last.check.hook ) =>
    Parse(Val(last.check.reply)) = Val(PlatformOrder[posts].message)

\* C26 as stated, for a message whose message.sent was processed: for
\* every snapshot in the store, a delayed check of its hook and message
\* waits in the queue or is being executed.
C26_SnapshotHasCheck ==
  \A h \in hooks, id \in MessageIds :
    (sentCount[<<h.name, id>>] > 0 /\ Key(h.name, id) \in DOMAIN store) =>
      \/ Armed(queue, h, id) > 0
      \/ \E c \in BagToSet(inflight) : c.hook = h.name /\ c.messageId = id

\* C27 as stated: the event processor calls done() exactly once for every
\* event job it is given.
C27_DoneOnce == last.op = "event" => last.done = 1

\* C28 as stated: when the callback of a delayed check was given a snapshot
\* with a matching recipient, the notification job has been created by the
\* time the callback calls done().
C28_JobBeforeDone ==
  ( /\ last.op = "check"
    /\ last.check.reply # None
    /\ last.recipients # <<>>
    /\ last.done > 0 ) =>
    \E i \in 1..Len(last.jobs) :
      \E h \in hooks : h.name = last.check.hook /\ last.jobs[i].type = h.originalName

\* The base url and the path as the claim names them: without the default
\* port and the final '/', and without the leading '/'.
BaseOf(url) ==
  LET u == IF Len(url) > 0 /\ url[Len(url)] = ":443" THEN SubSeq(url, 1, Len(url) - 1) ELSE url
  IN  IF Len(u) > 0 /\ u[Len(u)] = "/" THEN SubSeq(u, 1, Len(u) - 1) ELSE u
BareOf(path) == IF Len(path) > 0 /\ path[1] = "/" THEN Tail(path) ELSE path

\* C29: for every hook of the options object, whatever the order of the
\* calls, every registration of the hook has the target url base + '/' +
\* path and every route of the hook (under its name or its receipts name)
\* the path '/' + path, so the target url is the base url followed by the
\* route's path.
C29_SameEndpoint ==
  \A i \in 1..Len(appOptions.hooks) :
    LET hook == appOptions.hooks[i]
        path == BareOf(hook.path)
    IN  /\ \A n \in 1..Len(webhooks) :
             webhooks[n].config.name = hook.name =>
               webhooks[n].target_url = BaseOf(appOptions.url) \o <<"/">> \o path
        /\ \A r \in routes :
             r.name \in {hook.name, hook.name \o ReceiptsSuffix} =>
               /\ r.path = <<"/">> \o path
               /\ \A n \in 1..Len(webhooks) :
                    webhooks[n].config.name = hook.name =>
                      webhooks[n].target_url = BaseOf(appOptions.url) \o r.path

\* The hook is registered with the platform and, register having been
\* called, listened for.
C29_Witness ==
  /\ webhooks # <<>>
  /\ last.op \in {"listen", "receipts"}
  /\ routes # {}
  /\ Len(registers) > 0
  /\ \A r \in routes : r.path = <<"/", "r">>
  /\ webhooks[1].target_url = <<"u", "/", "r">>

====
